---- MODULE Spec2Model ----
(***************************************************************************)
(* FlipperPi (src/Python/Flipper.py): the continuous scan loop of          *)
(* FlipperPiDevice, its Wi-Fi and Bluetooth scans, the display update, and *)
(* main with its interrupt handling and GPIO cleanup.                      *)
(*                                                                         *)
(* Two threads are modelled: main (the foreground context) and scan_loop   *)
(* (the daemon thread started by start_continuous_scan).  Every statement  *)
(* of scan_loop is one step; time passes by Tick.                          *)
(***************************************************************************)
EXTENDS Integers, Sequences, FiniteSets, TLC

VARIABLES
    main_pc,       \* position of main: "start", "wait", "except", "finally", "exiting", "exited"
    main_exc,      \* exception propagating out of main's try block ("none" when there is none)
    main_slept,    \* time units since main's time.sleep(1) began (saturating)
    main_trace,    \* main's way out, in order: "interrupt", "print", "cleanup", "exit"
    exit_status,   \* the process exit status, -1 while the process runs
    gpio_setup,    \* TRUE while LED_PIN is set up as an output (GPIO.setup .. GPIO.cleanup)
    led,           \* the status indicator: "Idle" (pin LOW or released) or "Active" (pin HIGH)
    late_write,    \* TRUE once scan_loop has issued GPIO.output after GPIO.cleanup
    has_display,   \* hasattr(self, 'display')
    bluetooth_scanner, \* truthiness of self.bluetooth_scanner
    shown,         \* what the display shows: <<>> (blank) or <<wifi count, bt count>>
    scan_pc,       \* position of scan_loop
    slept,         \* time units since scan_loop's current/last time.sleep began (saturating)
    wifi_in,       \* outcome of the iwlist subprocess in the current cycle's wifi_scan
    wifi_nets,     \* what the last wifi_scan returned
    bt_in,         \* outcome of discovery and service lookups in the current cycle's scan
    bt_devices,    \* what the last advanced_bluetooth_scan returned
    trace,         \* the operations of the current cycle, in order
    disp_result,   \* the current cycle's update_display: "none", "skipped", "shown", "failed"
    logged,        \* the two counts logged by the current cycle (<<>> before)
    error_logs,    \* "Erro no loop de varredura" entries logged by the current cycle
    after_error,   \* the current cycle follows an error backoff
    call           \* a function called on its own: its name, then "returned"; "none" in the loop

vars == <<main_pc, main_exc, main_slept, main_trace, exit_status, gpio_setup, led,
          late_write, has_display, bluetooth_scanner, shown, scan_pc, slept, wifi_in,
          wifi_nets, bt_in, bt_devices, trace, disp_result, logged,
          error_logs, after_error, call>>

mainVars == <<main_pc, main_exc, main_slept, main_trace, exit_status>>
scanVars == <<scan_pc, slept, wifi_in, wifi_nets, bt_in, bt_devices, trace,
              disp_result, logged, error_logs, after_error>>

-----------------------------------------------------------------------------
(* Bounds of the checked inputs *)

\* longest iwlist output, in tokens
MaxOutLen == 8
\* most devices one Bluetooth discovery returns
MaxDevices == 3

(* Program constants *)

\* time.sleep(10): the dwell with the LED on
DWELL == 10
\* time.sleep(2): the cooldown with the LED off
COOLDOWN == 2
\* time.sleep(5): the pause after an error
BACKOFF == 5
\* time.sleep(1): main's wait loop
MAIN_POLL == 1

-----------------------------------------------------------------------------
(* Text: a string is a sequence of tokens.  "E" stands for the substring   *)
(* ESSID, "Q" for a double quote, "N" for a newline, "x" for any other     *)
(* character.                                                              *)

Tokens == {"E", "Q", "N", "x"}

Texts(n) == UNION {[1..k -> Tokens] : k \in 0..n}

Range(s) == {s[i] : i \in 1..Len(s)}

\* str.split(sep): the pieces between the occurrences of sep, k+1 pieces for k occurrences
RECURSIVE Split(_, _)
Split(s, sep) ==
    IF sep \notin Range(s) THEN <<s>>
    ELSE LET i == CHOOSE j \in 1..Len(s) : s[j] = sep /\ \A k \in 1..(j-1) : s[k] # sep
         IN <<SubSeq(s, 1, i-1)>> \o Split(SubSeq(s, i+1, Len(s)), sep)

\* outcome of a call: it raised, or it returned value
Raised == [raised |-> TRUE, value |-> <<>>]
Returned(v) == [raised |-> FALSE, value |-> v]

\* as wifi_parse, but a line that cannot be parsed ends the loop and keeps the networks
\* found so far
RECURSIVE wifi_parse_partial(_, _)
wifi_parse_partial(lines, networks) ==
    IF lines = <<>> THEN Returned(networks)
    ELSE LET line == Head(lines) IN
         IF "E" \in Range(line)
         THEN LET parts == Split(line, "Q") IN
              IF Len(parts) < 2 THEN Returned(networks)
              ELSE wifi_parse_partial(Tail(lines), Append(networks, [ssid |-> parts[2]]))
         ELSE wifi_parse_partial(Tail(lines), networks)

\* the loop over the lines of the output (lines 103-109)
RECURSIVE wifi_parse(_, _)
wifi_parse(lines, networks) ==
    IF lines = <<>> THEN Returned(networks)
    ELSE LET line == Head(lines) IN
         IF "E" \in Range(line)
         THEN LET parts == Split(line, "Q") IN
              IF Len(parts) < 2 THEN Raised            \* IndexError
              ELSE wifi_parse(Tail(lines), Append(networks, [ssid |-> parts[2]]))
         ELSE wifi_parse(Tail(lines), networks)

\* the try block of wifi_scan (lines 96-109); out.ok is FALSE when check_output raises
wifi_scan_try(out) ==
    IF ~out.ok THEN Raised ELSE wifi_parse(Split(out.text, "N"), <<>>)

\* as wifi_scan, without the except clause
wifi_scan_no_except(out) == wifi_scan_try(out)

\* wifi_scan: the except clause logs and returns []
wifi_scan(out) ==
    LET r == wifi_scan_try(out) IN IF r.raised THEN Returned(<<>>) ELSE r

-----------------------------------------------------------------------------
(* Bluetooth *)

Pairs == {<<"AA:BB", "Phone">>, <<"CC:DD", "Watch">>}
ServiceLists == {<<>>, <<"svc">>}
\* outcome of one bluetooth.find_service call
Lookups == {Raised} \cup {Returned(s) : s \in ServiceLists}

\* BluetoothScanner.discover: the (addr, name) pairs as dicts, [] when discovery raises
discover(d) ==
    IF ~d.ok THEN <<>>
    ELSE [i \in 1..Len(d.nearby) |-> [address |-> d.nearby[i][1], name |-> d.nearby[i][2]]]

\* as bt_enrich, but a device whose lookup raised is not appended
RECURSIVE bt_enrich_drops_failed(_, _, _, _)
bt_enrich_drops_failed(devices, lookup, i, detailed_devices) ==
    IF i > Len(devices) THEN detailed_devices
    ELSE LET device == devices[i] IN
         IF lookup[i].raised
         THEN bt_enrich_drops_failed(devices, lookup, i + 1, detailed_devices)
         ELSE bt_enrich_drops_failed(devices, lookup, i + 1,
                Append(detailed_devices,
                       [address |-> device.address, name |-> device.name,
                        services |-> lookup[i].value]))

\* the loop of advanced_bluetooth_scan over the devices from index i on (lines 131-139)
RECURSIVE bt_enrich(_, _, _, _)
bt_enrich(devices, lookup, i, detailed_devices) ==
    IF i > Len(devices) THEN detailed_devices
    ELSE LET device == devices[i]
             services == IF lookup[i].raised THEN <<>> ELSE lookup[i].value
         IN bt_enrich(devices, lookup, i + 1,
                Append(detailed_devices,
                       [address |-> device.address, name |-> device.name,
                        services |-> services]))

advanced_bluetooth_scan(scanner, d) ==
    IF ~scanner THEN Returned(<<>>)
    ELSE Returned(bt_enrich(discover(d), d.lookup, 1, <<>>))

-----------------------------------------------------------------------------
(* Inputs *)

WifiOutcomes(n) == {[ok |-> FALSE, text |-> <<>>]} \cup {[ok |-> TRUE, text |-> t] : t \in Texts(n)}

BtOutcomesOfLen(k) ==
    {[ok |-> o, nearby |-> nb, lookup |-> lk] :
        o \in BOOLEAN, nb \in [1..k -> Pairs], lk \in [1..k -> Lookups]}

BtOutcomes(n) == UNION {BtOutcomesOfLen(k) : k \in 0..n}

NoWifi == [ok |-> TRUE, text |-> <<>>]
NoBt == [ok |-> TRUE, nearby |-> <<>>, lookup |-> <<>>]

-----------------------------------------------------------------------------
(* Display *)

DisplayOutcomes == {"ok", "raise"}

\* as update_display, without the hasattr check and the try/except
update_display_unguarded(present, outcome, nets, devices, showing) ==
    IF ~present \/ outcome = "raise" THEN Raised
    ELSE Returned([shown |-> <<Len(nets), Len(devices)>>, result |-> "shown"])

\* as update_display, with the two counts in the wrong order
update_display_swapped(present, outcome, nets, devices, showing) ==
    IF ~present THEN Returned([shown |-> showing, result |-> "skipped"])
    ELSE IF outcome = "raise" THEN Returned([shown |-> showing, result |-> "failed"])
    ELSE Returned([shown |-> <<Len(devices), Len(nets)>>, result |-> "shown"])

\* update_display (lines 175-186): nothing without a display; a raising display call is
\* logged and swallowed; else the two counts are shown
update_display(present, outcome, nets, devices, showing) ==
    IF ~present THEN Returned([shown |-> showing, result |-> "skipped"])
    ELSE IF outcome = "raise" THEN Returned([shown |-> showing, result |-> "failed"])
    ELSE Returned([shown |-> <<Len(nets), Len(devices)>>, result |-> "shown"])

-----------------------------------------------------------------------------
(* The outcomes the scan loop is run with *)

WifiSamples ==
    { [ok |-> FALSE, text |-> <<>>],
      NoWifi,
      [ok |-> TRUE, text |-> <<"x", "N", "E", "Q", "x", "Q">>],
      [ok |-> TRUE, text |-> <<"E", "Q", "x", "Q", "N", "E", "Q", "Q">>],
      [ok |-> TRUE, text |-> <<"E", "Q", "x", "Q", "N", "E">>] }

BtSamples ==
    { [ok |-> FALSE, nearby |-> <<>>, lookup |-> <<>>],
      NoBt,
      [ok |-> TRUE, nearby |-> <<<<"AA:BB", "Phone">>>>, lookup |-> <<Raised>>],
      [ok |-> TRUE, nearby |-> <<<<"AA:BB", "Phone">>, <<"CC:DD", "Watch">>>>,
       lookup |-> <<Returned(<<"svc">>), Raised>>] }

-----------------------------------------------------------------------------
(* The state after FlipperPiDevice() (lines 19-54): the LED pin is an output at    *)
(* its reset level (GPIO.setup is given no initial level), the display exists      *)
(* unless board.I2C() or the SSD1306 constructor raised, the Bluetooth scanner     *)
(* exists (initialize_bluetooth returns an object on its only path).               *)

Init ==
    /\ main_pc = "start" /\ main_exc = "none" /\ main_slept = 0 /\ main_trace = <<>>
    /\ exit_status = -1
    /\ gpio_setup = TRUE /\ led = "Idle" /\ late_write = FALSE
    /\ has_display \in BOOLEAN /\ bluetooth_scanner = TRUE /\ shown = <<>>
    /\ scan_pc = "unstarted" /\ slept = 0
    /\ wifi_in = NoWifi /\ wifi_nets = <<>> /\ bt_in = NoBt /\ bt_devices = <<>>
    /\ trace = <<>> /\ disp_result = "none" /\ logged = <<>> /\ error_logs = 0
    /\ after_error = FALSE
    /\ call = "none"

-----------------------------------------------------------------------------
(* scan_loop, one step per statement *)

Alive == main_pc # "exited"

\* line 149: GPIO.output(LED_PIN, HIGH), the first statement of a cycle.  On a released
\* channel the call raises RuntimeError.
ScanLedHigh ==
    /\ Alive /\ scan_pc = "led_high"
    /\ wifi_in' = NoWifi /\ bt_in' = NoBt /\ disp_result' = "none" /\ logged' = <<>>
    /\ error_logs' = 0
    /\ IF gpio_setup
       THEN led' = "Active" /\ scan_pc' = "wifi" /\ trace' = <<"led_high">>
            /\ late_write' = late_write
       ELSE led' = led /\ scan_pc' = "except" /\ trace' = <<>> /\ late_write' = TRUE
    /\ UNCHANGED <<mainVars, gpio_setup, has_display, bluetooth_scanner, shown, slept,
                   wifi_nets, bt_devices, after_error, call>>

\* line 152: wifi_nets = self.wifi_scan()
ScanWifi ==
    /\ Alive /\ scan_pc = "wifi"
    /\ \E out \in WifiSamples :
         LET r == wifi_scan(out) IN
         /\ wifi_in' = out
         /\ trace' = Append(trace, "wifi")
         /\ IF r.raised THEN scan_pc' = "except" /\ wifi_nets' = wifi_nets
            ELSE scan_pc' = "bt" /\ wifi_nets' = r.value
    /\ UNCHANGED <<mainVars, gpio_setup, led, late_write, has_display, bluetooth_scanner,
                   shown, slept, bt_in, bt_devices, disp_result, logged, error_logs,
                   after_error, call>>

\* line 153: bt_devices = self.advanced_bluetooth_scan()
ScanBt ==
    /\ Alive /\ scan_pc = "bt"
    /\ \E d \in BtSamples :
         LET r == advanced_bluetooth_scan(bluetooth_scanner, d) IN
         /\ bt_in' = d
         /\ trace' = Append(trace, "bt")
         /\ IF r.raised THEN scan_pc' = "except" /\ bt_devices' = bt_devices
            ELSE scan_pc' = "log" /\ bt_devices' = r.value
    /\ UNCHANGED <<mainVars, gpio_setup, led, late_write, has_display, bluetooth_scanner,
                   shown, slept, wifi_in, wifi_nets, disp_result, logged, error_logs,
                   after_error, call>>

\* lines 156-157: the two counts are logged
ScanLog ==
    /\ Alive /\ scan_pc = "log"
    /\ logged' = <<Len(wifi_nets), Len(bt_devices)>>
    /\ trace' = Append(trace, "log")
    /\ scan_pc' = "display"
    /\ UNCHANGED <<mainVars, gpio_setup, led, late_write, has_display, bluetooth_scanner,
                   shown, slept, wifi_in, wifi_nets, bt_in, bt_devices, disp_result,
                   error_logs, after_error, call>>

\* line 160: self.update_display(wifi_nets, bt_devices); then time.sleep(10) begins
ScanDisplay ==
    /\ Alive /\ scan_pc = "display"
    /\ \E o \in DisplayOutcomes :
         LET r == update_display(has_display, o, wifi_nets, bt_devices, shown) IN
         /\ trace' = Append(trace, "display")
         /\ IF r.raised
            THEN scan_pc' = "except" /\ shown' = shown /\ disp_result' = "raised"
                 /\ slept' = slept
            ELSE scan_pc' = "dwell" /\ shown' = r.value.shown
                 /\ disp_result' = r.value.result /\ slept' = 0
    /\ UNCHANGED <<mainVars, gpio_setup, led, late_write, has_display, bluetooth_scanner,
                   wifi_in, wifi_nets, bt_in, bt_devices, logged, error_logs, after_error,
                   call>>

\* line 163: time.sleep(10) returns
ScanDwell ==
    /\ Alive /\ scan_pc = "dwell" /\ slept >= DWELL
    /\ trace' = Append(trace, "dwell")
    /\ scan_pc' = "led_low"
    /\ UNCHANGED <<mainVars, gpio_setup, led, late_write, has_display, bluetooth_scanner,
                   shown, slept, wifi_in, wifi_nets, bt_in, bt_devices, disp_result, logged,
                   error_logs, after_error, call>>

\* as ScanLedLow, writing HIGH again instead of LOW
ScanLedLow_WritesHigh ==
    /\ Alive /\ scan_pc = "led_low"
    /\ IF gpio_setup
       THEN led' = "Active" /\ scan_pc' = "cooldown" /\ trace' = Append(trace, "led_high")
            /\ slept' = 0 /\ late_write' = late_write
       ELSE led' = led /\ scan_pc' = "except" /\ trace' = trace /\ slept' = slept
            /\ late_write' = TRUE
    /\ UNCHANGED <<mainVars, gpio_setup, has_display, bluetooth_scanner, shown, wifi_in,
                   wifi_nets, bt_in, bt_devices, disp_result, logged, error_logs,
                   after_error, call>>

\* as ScanLedLow, with the write to the pin left out
ScanLedLow_NoWrite ==
    /\ Alive /\ scan_pc = "led_low"
    /\ led' = led /\ scan_pc' = "cooldown" /\ trace' = Append(trace, "led_low")
    /\ slept' = 0
    /\ UNCHANGED <<mainVars, gpio_setup, late_write, has_display, bluetooth_scanner, shown,
                   wifi_in, wifi_nets, bt_in, bt_devices, disp_result, logged, error_logs,
                   after_error, call>>

\* line 165: GPIO.output(LED_PIN, LOW); then time.sleep(2) begins
ScanLedLow ==
    /\ Alive /\ scan_pc = "led_low"
    /\ IF gpio_setup
       THEN led' = "Idle" /\ scan_pc' = "cooldown" /\ trace' = Append(trace, "led_low")
            /\ slept' = 0 /\ late_write' = late_write
       ELSE led' = led /\ scan_pc' = "except" /\ trace' = trace /\ slept' = slept
            /\ late_write' = TRUE
    /\ UNCHANGED <<mainVars, gpio_setup, has_display, bluetooth_scanner, shown, wifi_in,
                   wifi_nets, bt_in, bt_devices, disp_result, logged, error_logs,
                   after_error, call>>

\* line 166: time.sleep(2) returns; the loop goes round
ScanCooldown ==
    /\ Alive /\ scan_pc = "cooldown" /\ slept >= COOLDOWN
    /\ trace' = Append(trace, "cooldown")
    /\ scan_pc' = "led_high"
    /\ after_error' = FALSE
    /\ UNCHANGED <<mainVars, gpio_setup, led, late_write, has_display, bluetooth_scanner,
                   shown, slept, wifi_in, wifi_nets, bt_in, bt_devices, disp_result, logged,
                   error_logs, call>>

\* lines 167-168: except Exception: the error is logged; then time.sleep(5) begins
ScanExcept ==
    /\ Alive /\ scan_pc = "except"
    /\ error_logs' = error_logs + 1
    /\ trace' = Append(trace, "error")
    /\ scan_pc' = "backoff"
    /\ slept' = 0
    /\ UNCHANGED <<mainVars, gpio_setup, led, late_write, has_display, bluetooth_scanner,
                   shown, wifi_in, wifi_nets, bt_in, bt_devices, disp_result, logged,
                   after_error, call>>

\* as ScanBackoff, pausing as long as the cooldown only
ScanBackoff_Short ==
    /\ Alive /\ scan_pc = "backoff" /\ slept >= COOLDOWN
    /\ trace' = Append(trace, "backoff")
    /\ scan_pc' = "led_high"
    /\ after_error' = TRUE
    /\ UNCHANGED <<mainVars, gpio_setup, led, late_write, has_display, bluetooth_scanner,
                   shown, slept, wifi_in, wifi_nets, bt_in, bt_devices, disp_result, logged,
                   error_logs, call>>

\* line 169: time.sleep(5) returns; the loop goes round
ScanBackoff ==
    /\ Alive /\ scan_pc = "backoff" /\ slept >= BACKOFF
    /\ trace' = Append(trace, "backoff")
    /\ scan_pc' = "led_high"
    /\ after_error' = TRUE
    /\ UNCHANGED <<mainVars, gpio_setup, led, late_write, has_display, bluetooth_scanner,
                   shown, slept, wifi_in, wifi_nets, bt_in, bt_devices, disp_result, logged,
                   error_logs, call>>

scan_loop ==
    \/ ScanLedHigh \/ ScanWifi \/ ScanBt \/ ScanLog \/ ScanDisplay \/ ScanDwell
    \/ ScanLedLow \/ ScanCooldown \/ ScanExcept \/ ScanBackoff

-----------------------------------------------------------------------------
(* main *)

\* line 198, lines 172-173: the daemon thread is started, main enters its wait loop
start_continuous_scan ==
    /\ main_pc = "start"
    /\ scan_pc' = "led_high"
    /\ main_pc' = "wait" /\ main_slept' = 0
    /\ UNCHANGED <<main_exc, main_trace, exit_status, gpio_setup, led, late_write,
                   has_display, bluetooth_scanner, shown, slept, wifi_in, wifi_nets, bt_in,
                   bt_devices, trace, disp_result, logged, error_logs, after_error, call>>

\* line 173: scan_thread.start() raises (no thread can be started): the exception is no
\* KeyboardInterrupt, so only the finally clause runs
StartFails ==
    /\ main_pc = "start"
    /\ main_pc' = "finally" /\ main_exc' = "RuntimeError"
    /\ UNCHANGED <<main_slept, main_trace, exit_status, gpio_setup, led, late_write,
                   has_display, bluetooth_scanner, shown, scanVars, call>>

\* lines 201-202: one round of while True: time.sleep(1)
MainWait ==
    /\ main_pc = "wait" /\ main_slept >= MAIN_POLL
    /\ main_slept' = 0
    /\ UNCHANGED <<main_pc, main_exc, main_trace, exit_status, gpio_setup, led, late_write,
                   has_display, bluetooth_scanner, shown, scanVars, call>>

\* Ctrl-C while main is inside its try block (lines 196-202)
Interrupt ==
    /\ main_pc \in {"start", "wait"}
    /\ main_pc' = "except"
    /\ main_trace' = Append(main_trace, "interrupt")
    /\ UNCHANGED <<main_exc, main_slept, exit_status, gpio_setup, led,
                   late_write, has_display, bluetooth_scanner, shown, scanVars, call>>

\* as MainExcept, with a cleanup in the handler as well as in the finally clause
MainExcept_AlsoCleans ==
    /\ main_pc = "except"
    /\ main_trace' = main_trace \o <<"print", "cleanup">>
    /\ gpio_setup' = FALSE /\ led' = "Idle"
    /\ main_pc' = "finally"
    /\ UNCHANGED <<main_exc, main_slept, exit_status, late_write, has_display,
                   bluetooth_scanner, shown, scanVars, call>>

\* lines 203-204: except KeyboardInterrupt: the shutdown message is printed
MainExcept ==
    /\ main_pc = "except"
    /\ main_trace' = Append(main_trace, "print")
    /\ main_pc' = "finally"
    /\ UNCHANGED <<main_exc, main_slept, exit_status, gpio_setup, led, late_write,
                   has_display, bluetooth_scanner, shown, scanVars, call>>

\* lines 205-206, 188-190: finally: flipper_pi.cleanup(): GPIO.cleanup() releases the
\* channels, the LED pin is an output no more and the LED is not driven
cleanup ==
    /\ main_pc = "finally"
    /\ gpio_setup' = FALSE /\ led' = "Idle"
    /\ main_trace' = Append(main_trace, "cleanup")
    /\ main_pc' = "exiting"
    /\ UNCHANGED <<main_exc, main_slept, exit_status, late_write, has_display,
                   bluetooth_scanner, shown, scanVars, call>>

\* main returns or the exception leaves it: the process exits, and the daemon thread
\* stops where it is (no step of scan_loop is taken once the process has exited)
Exit ==
    /\ main_pc = "exiting"
    /\ exit_status' = IF main_exc = "none" THEN 0 ELSE 1
    /\ main_trace' = Append(main_trace, "exit")
    /\ main_pc' = "exited"
    /\ UNCHANGED <<main_exc, main_slept, gpio_setup, led, late_write, has_display,
                   bluetooth_scanner, shown, scanVars, call>>

main == start_continuous_scan \/ StartFails \/ MainWait \/ MainExcept \/ cleanup \/ Exit

-----------------------------------------------------------------------------
(* Time *)

\* how long the sleep at a position of scan_loop lasts (0: no sleep there)
SleepOf(pc) ==
    IF pc = "dwell" THEN DWELL ELSE IF pc = "cooldown" THEN COOLDOWN
    ELSE IF pc = "backoff" THEN BACKOFF ELSE 0

\* one time unit passes for every sleeping thread
Tick ==
    /\ Alive
    /\ \/ slept < SleepOf(scan_pc)
       \/ main_pc = "wait" /\ main_slept < MAIN_POLL
    /\ slept' = IF slept < SleepOf(scan_pc) THEN slept + 1 ELSE slept
    /\ main_slept' = IF main_pc = "wait" /\ main_slept < MAIN_POLL
                     THEN main_slept + 1 ELSE main_slept
    /\ UNCHANGED <<main_pc, main_exc, main_trace, exit_status, gpio_setup, led, late_write,
                   has_display, bluetooth_scanner, shown, scan_pc, wifi_in, wifi_nets,
                   bt_in, bt_devices, trace, disp_result, logged, error_logs, after_error,
                   call>>

Next == scan_loop \/ main \/ Interrupt \/ Tick

Spec == Init /\ [][Next]_vars

\* the scan thread is scheduled whenever it can run, and time passes; nothing is
\* assumed of main, which may wait for ever or stop at any point of its way out
LiveSpec == Spec /\ WF_vars(scan_loop) /\ WF_vars(Tick)

-----------------------------------------------------------------------------
(* One call of wifi_scan or of advanced_bluetooth_scan, on every outcome of the    *)
(* tool or of the discovery within the bounds                                      *)

FnInit ==
    /\ main_pc = "wait" /\ main_exc = "none" /\ main_slept = 0 /\ main_trace = <<>>
    /\ exit_status = -1
    /\ gpio_setup = TRUE /\ led = "Active" /\ late_write = FALSE
    /\ has_display = TRUE /\ bluetooth_scanner = TRUE /\ shown = <<>>
    /\ scan_pc = "call" /\ slept = 0
    /\ wifi_nets = <<>> /\ bt_devices = <<>>
    /\ trace = <<>> /\ disp_result = "none" /\ logged = <<>> /\ error_logs = 0
    /\ after_error = FALSE
    /\ call \in {"wifi_scan", "advanced_bluetooth_scan"}
    /\ wifi_in \in IF call = "wifi_scan" THEN WifiOutcomes(MaxOutLen) ELSE {NoWifi}
    /\ bt_in \in IF call = "advanced_bluetooth_scan" THEN BtOutcomes(MaxDevices) ELSE {NoBt}

CallWifiScan ==
    /\ call = "wifi_scan"
    /\ LET r == wifi_scan(wifi_in) IN
       IF r.raised THEN call' = "raised" /\ wifi_nets' = wifi_nets
       ELSE call' = "returned" /\ wifi_nets' = r.value
    /\ trace' = <<"wifi">>
    /\ UNCHANGED <<mainVars, gpio_setup, led, late_write, has_display, bluetooth_scanner,
                   shown, scan_pc, slept, wifi_in, bt_in, bt_devices, disp_result, logged,
                   error_logs, after_error>>

CallBluetoothScan ==
    /\ call = "advanced_bluetooth_scan"
    /\ LET r == advanced_bluetooth_scan(bluetooth_scanner, bt_in) IN
       IF r.raised THEN call' = "raised" /\ bt_devices' = bt_devices
       ELSE call' = "returned" /\ bt_devices' = r.value
    /\ trace' = <<"bt">>
    /\ UNCHANGED <<mainVars, gpio_setup, led, late_write, has_display, bluetooth_scanner,
                   shown, scan_pc, slept, wifi_in, wifi_nets, bt_in, disp_result, logged,
                   error_logs, after_error>>

FnNext == CallWifiScan \/ CallBluetoothScan

FnSpec == FnInit /\ [][FnNext]_vars

-----------------------------------------------------------------------------
(* Vocabulary of the properties *)

Count(tr, e) == Cardinality({i \in 1..Len(tr) : tr[i] = e})

Last(tr) == tr[Len(tr)]

IsPrefix(a, b) == Len(a) <= Len(b) /\ SubSeq(b, 1, Len(a)) = a

\* the order of a cycle's operations (section 4.1 of the specification, steps 1-6)
FullOrder == <<"led_high", "wifi", "bt", "log", "display", "dwell", "led_low", "cooldown">>

Min(S) == CHOOSE m \in S : \A o \in S : m <= o

\* the lines of a text, by their first positions
Starts(t) == {1} \cup {i + 1 : i \in {j \in 1..Len(t) : t[j] = "N"}}

LineEnd(t, s) ==
    (CHOOSE j \in s..(Len(t) + 1) :
        /\ (j = Len(t) + 1 \/ t[j] = "N")
        /\ \A k \in s..(j - 1) : t[k] # "N") - 1

LineAt(t, s) == SubSeq(t, s, LineEnd(t, s))

\* the lines holding the ESSID marker, in line order
EssidStarts(t) == {s \in Starts(t) : "E" \in Range(LineAt(t, s))}

EssidLines(t) ==
    [k \in 1..Cardinality(EssidStarts(t)) |->
        LineAt(t, CHOOSE s \in EssidStarts(t) :
                     Cardinality({u \in EssidStarts(t) : u <= s}) = k)]

Quotes(line) == {i \in 1..Len(line) : line[i] = "Q"}

\* the identifier between the first two quotes of a line
QuotedId(line) ==
    LET q1 == Min(Quotes(line))
        q2 == Min(Quotes(line) \ {q1})
    IN SubSeq(line, q1 + 1, q2 - 1)

\* the text after the first quote of a line, up to the next quote or the end of the line
AfterQuoteId(line) ==
    LET q1 == Min(Quotes(line))
        rest == Quotes(line) \ {q1}
    IN SubSeq(line, q1 + 1, IF rest = {} THEN Len(line) ELSE Min(rest) - 1)

\* the tool call fails, or a line with the marker holds no quote at all
WifiFails(out) ==
    \/ ~out.ok
    \/ \E s \in EssidStarts(out.text) : Quotes(LineAt(out.text, s)) = {}

-----------------------------------------------------------------------------
(* C1 *)

\* C1: in every cycle the indicator is set to active exactly once, before the Wi-Fi and
\* the Bluetooth scan are invoked, and to idle exactly once, after the 10-unit dwell,
\* whatever the Wi-Fi scan, the discovery and the service lookups return or raise: no
\* cycle writes either level twice, no scan runs before the activation, the idle write
\* comes after a dwell of 10 units, a finished cycle has done both writes, and no scan
\* outcome ends a cycle early (only a GPIO call on a released channel does).
C1_IndicatorOncePerCycle ==
    /\ Count(trace, "led_high") <= 1 /\ Count(trace, "led_low") <= 1
    /\ (\E i \in 1..Len(trace) : trace[i] \in {"wifi", "bt"}) => trace[1] = "led_high"
    /\ scan_pc \in {"wifi", "bt"} => trace[1] = "led_high"
    /\ scan_pc = "led_low" => slept >= 10 /\ Last(trace) = "dwell"
    /\ Count(trace, "led_low") = 1 =>
          \E i \in 2..Len(trace) : trace[i] = "led_low" /\ trace[i-1] = "dwell"
    /\ (trace # <<>> /\ Last(trace) = "cooldown") =>
          /\ Count(trace, "led_high") = 1 /\ Count(trace, "led_low") = 1
          /\ trace[1] = "led_high"
    /\ scan_pc \in {"except", "backoff"} => ~gpio_setup
    /\ (scan_pc = "led_high" /\ gpio_setup /\ trace # <<>>) => Last(trace) = "cooldown"

\* a cycle has finished although its Wi-Fi scan failed and a service lookup raised
C1_Witness ==
    /\ scan_pc = "cooldown" /\ ~wifi_in.ok
    /\ \E i \in 1..Len(bt_in.lookup) : bt_in.lookup[i].raised

-----------------------------------------------------------------------------
(* C2 *)

\* C2: when the Wi-Fi scan of a cycle fails (the subprocess call or the parsing raises),
\* wifi_scan returns the empty sequence without raising and the same cycle invokes the
\* Bluetooth scan, logs the counts and updates the display: the failure never aborts it.
C2_WifiFailureAbsorbed ==
    ("wifi" \in Range(trace) /\ WifiFails(wifi_in)) =>
        /\ wifi_nets = <<>>
        /\ IsPrefix(SubSeq(trace, 1, IF Len(trace) < 5 THEN Len(trace) ELSE 5), FullOrder)
        /\ Last(trace) = "wifi" => scan_pc = "bt"
        /\ Last(trace) = "bt" => scan_pc = "log"
        /\ Last(trace) = "log" => scan_pc = "display" /\ logged = <<0, Len(bt_devices)>>
        /\ Last(trace) = "display" => scan_pc = "dwell" /\ disp_result # "none"
        /\ "error" \in Range(trace) \/ scan_pc = "except" => "display" \in Range(trace)

\* the parsing raised on the second line of the output and the cycle has reached its dwell
C2_Witness ==
    /\ scan_pc = "dwell" /\ wifi_in.ok /\ WifiFails(wifi_in)
    /\ Len(bt_devices) = 2 /\ logged = <<0, 2>>

-----------------------------------------------------------------------------
(* C3 *)

\* C3: advanced_bluetooth_scan returns exactly the discovered devices, in discovery
\* order, with their address and name; a device whose service lookup raised has an
\* empty service list, every other device the looked-up services; a failed lookup
\* neither drops its device nor prevents the lookup of later devices.
C3_BluetoothEnrichment ==
    /\ trace = <<"bt">> => call = "returned"
    /\ (call = "returned" /\ trace = <<"bt">>) =>
          LET n == IF bt_in.ok THEN Len(bt_in.nearby) ELSE 0 IN
          /\ Len(bt_devices) = n
          /\ \A i \in 1..n :
                /\ bt_devices[i].address = bt_in.nearby[i][1]
                /\ bt_devices[i].name = bt_in.nearby[i][2]
                /\ bt_devices[i].services =
                      IF bt_in.lookup[i].raised THEN <<>> ELSE bt_in.lookup[i].value

\* the first lookup raised and a later device still has its looked-up services
C3_Witness ==
    /\ call = "returned" /\ trace = <<"bt">> /\ Len(bt_devices) >= 2
    /\ bt_in.lookup[1].raised /\ bt_devices[1].services = <<>>
    /\ bt_devices[2].services = <<"svc">>

-----------------------------------------------------------------------------
(* C4 *)

C4_Inv ==
    /\ disp_result # "raised"
    /\ (trace # <<>> /\ Last(trace) = "display") => scan_pc = "dwell" /\ error_logs = 0
    /\ ~has_display => shown = <<>> /\ disp_result \in {"none", "skipped"}
    /\ (has_display /\ disp_result # "none") => disp_result \in {"shown", "failed"}
    /\ (disp_result \in {"skipped", "failed"} /\ "led_low" \in Range(trace)) =>
          IsPrefix(trace, FullOrder)
    /\ (disp_result \in {"skipped", "failed"} /\ scan_pc = "cooldown") => led = "Idle" \/ ~gpio_setup

C4_Step ==
    /\ (scan_pc = "display" /\ scan_pc' # "display") => scan_pc' = "dwell"
    /\ (disp_result \in {"skipped", "failed"} /\ scan_pc = "dwell" /\ scan_pc' # "dwell")
          => scan_pc' = "led_low"
    /\ (disp_result \in {"skipped", "failed"} /\ scan_pc = "led_high" /\ gpio_setup
            /\ scan_pc' # "led_high")
          => scan_pc' = "wifi" /\ led' = "Active"

\* C4: update_display never raises to scan_loop: without a display object it does
\* nothing, a raising display call is swallowed; either way the cycle goes on with its
\* dwell and sets the indicator to idle, and the next cycle sets it to active again
\* (as long as main has not released the GPIO meanwhile).
C4_DisplayBestEffort ==
    /\ []C4_Inv
    /\ [][C4_Step]_vars
    /\ (disp_result \in {"skipped", "failed"} /\ scan_pc = "dwell")
          ~> ((scan_pc = "wifi" /\ led = "Active") \/ ~gpio_setup)

\* without a display object the cycle has finished its dwell and set the indicator idle
C4_Witness ==
    /\ ~has_display /\ disp_result = "skipped" /\ scan_pc = "cooldown" /\ led = "Idle"
    /\ gpio_setup

-----------------------------------------------------------------------------
(* C5 *)

C5_Inv ==
    /\ error_logs <= 1
    /\ scan_pc = "backoff" => error_logs = 1 /\ Last(trace) = "error"
    /\ (scan_pc = "led_high" /\ after_error) =>
          slept >= 5 /\ error_logs = 1 /\ Last(trace) = "backoff"
    /\ scan_pc # "unstarted" =>
          scan_pc \in {"led_high", "wifi", "bt", "log", "display", "dwell", "led_low",
                       "cooldown", "except", "backoff"}

C5_Step ==
    /\ (scan_pc = "except" /\ scan_pc' # "except") => scan_pc' = "backoff"
    /\ (scan_pc = "backoff" /\ scan_pc' # "backoff") => scan_pc' = "led_high"

\* C5: an exception that escapes a step of a cycle is caught at the cycle boundary, one
\* error entry is logged, the loop pauses 5 time units and starts a new cycle; the loop
\* never ends because of an error: after every error a next cycle start follows (unless
\* the process exits first), no sooner than 5 time units after the error.
C5_ErrorBackoff ==
    /\ []C5_Inv
    /\ [][C5_Step]_vars
    /\ (scan_pc = "except") ~> ((scan_pc = "led_high" /\ after_error) \/ main_pc = "exited")

\* a cycle is about to start after an error and its backoff
C5_Witness == scan_pc = "led_high" /\ after_error /\ error_logs = 1 /\ slept >= 5

-----------------------------------------------------------------------------
(* C6 *)

\* C6: every path by which main stops runs cleanup exactly once before the process
\* exits; on an interrupt the shutdown message is printed first, then cleanup releases
\* the GPIO, then the process exits with status 0.
C6_CleanupOnEveryExit ==
    /\ Count(main_trace, "cleanup") <= 1
    /\ (exit_status # -1) <=> (main_pc = "exited")
    /\ main_pc = "exited" =>
          /\ Count(main_trace, "cleanup") = 1 /\ ~gpio_setup
          /\ Len(main_trace) >= 2
          /\ main_trace[Len(main_trace) - 1] = "cleanup" /\ Last(main_trace) = "exit"
          /\ "interrupt" \in Range(main_trace) =>
                main_trace = <<"interrupt", "print", "cleanup", "exit">> /\ exit_status = 0
          /\ "interrupt" \notin Range(main_trace) =>
                main_trace = <<"cleanup", "exit">> /\ exit_status = 1
    /\ "cleanup" \in Range(main_trace) => ~gpio_setup

\* the process has exited with status 0 after an interrupt that came while the loop ran
C6_Witness ==
    /\ main_pc = "exited" /\ exit_status = 0 /\ "interrupt" \in Range(main_trace)
    /\ trace # <<>>

-----------------------------------------------------------------------------
(* C7 *)

\* what the claim says wifi_scan returns
C7_Expected(out) ==
    IF ~out.ok THEN <<>>
    ELSE LET ls == EssidLines(out.text) IN
         IF \A k \in 1..Len(ls) : Cardinality(Quotes(ls[k])) >= 2
         THEN [k \in 1..Len(ls) |-> [ssid |-> QuotedId(ls[k])]]
         ELSE <<>>

\* C7 as stated: wifi_scan never raises; it returns the quoted identifiers of the lines
\* with the ESSID marker, in line order, when every such line holds a quoted
\* identifier, and the empty sequence when the tool fails or such a line holds none.
C7_Original ==
    /\ trace = <<"wifi">> => call = "returned"
    /\ (call = "returned" /\ trace = <<"wifi">>) => wifi_nets = C7_Expected(wifi_in)

C7_ExpectedAmended(out) ==
    IF WifiFails(out) THEN <<>>
    ELSE LET ls == EssidLines(out.text) IN
         [k \in 1..Len(ls) |-> [ssid |-> AfterQuoteId(ls[k])]]

\* C7 amended: wifi_scan never raises; when every line with the ESSID marker holds at
\* least one double quote it returns, per such line and in line order, the text between
\* the line's first quote and its next quote or, without one, the end of the line; when
\* the tool fails or such a line holds no quote it returns the empty sequence, never a
\* partial list.
C7_WifiScanResult ==
    /\ trace = <<"wifi">> => call = "returned"
    /\ (call = "returned" /\ trace = <<"wifi">>) => wifi_nets = C7_ExpectedAmended(wifi_in)

\* two lines with the marker, the second with an opening quote only
C7_Witness ==
    /\ call = "returned" /\ trace = <<"wifi">>
    /\ wifi_in.text = <<"E", "Q", "x", "Q", "N", "E", "Q", "x">>
    /\ Len(wifi_nets) = 2

-----------------------------------------------------------------------------
(* C8 *)

\* C8: in every cycle that completes without an escaping exception the operations come
\* in the fixed order: indicator active, Wi-Fi scan, Bluetooth scan, logging of the two
\* counts, display update with the same counts, 10-unit dwell, indicator idle, 2-unit
\* cooldown; the Wi-Fi scan has returned before the Bluetooth scan starts, and the next
\* cycle starts only after the cooldown.
C8_CycleOrder ==
    /\ "error" \notin Range(trace) => IsPrefix(trace, FullOrder)
    /\ (trace # <<>> /\ Last(trace) = "cooldown") =>
          /\ trace = FullOrder
          /\ scan_pc = "led_high" /\ slept >= 2
          /\ logged = <<Len(wifi_nets), Len(bt_devices)>>
          /\ disp_result = "shown" => shown = logged
    /\ scan_pc = "bt" => Last(trace) = "wifi"
    /\ scan_pc = "log" => Last(trace) = "bt"
    /\ scan_pc = "display" => Last(trace) = "log" /\ logged = <<Len(wifi_nets), Len(bt_devices)>>
    /\ scan_pc = "dwell" =>
          /\ Last(trace) = "display"
          /\ disp_result = "shown" => shown = logged
    /\ scan_pc = "led_low" => Last(trace) = "dwell" /\ slept >= 10
    /\ scan_pc = "cooldown" => Last(trace) = "led_low"
    /\ (scan_pc = "led_high" /\ trace # <<>>) => Last(trace) \in {"cooldown", "backoff"}

\* a cycle has completed with two networks and one device shown
C8_Witness ==
    /\ scan_pc = "led_high" /\ trace = FullOrder
    /\ disp_result = "shown" /\ shown = <<2, 1>>

-----------------------------------------------------------------------------
(* C9 *)

C9_Inv ==
    /\ led \in {"Idle", "Active"}
    /\ scan_pc = "unstarted" => led = "Idle"
    /\ scan_pc = "led_high" => led = "Idle"

C9_Activation ==
    (led' = "Active" /\ led' # led) => (led = "Idle" /\ scan_pc = "led_high")

\* C9 as stated: the indicator starts Idle, is Idle at the start of every cycle (also of
\* one that follows an error backoff), every activation is Idle to Active at a cycle's
\* start, and every Active period is ended by the transition to Idle after the dwell.
C9_Original ==
    /\ []C9_Inv
    /\ [][C9_Activation]_vars
    /\ [][(led = "Active" /\ led' # "Active") =>
             (led' = "Idle" /\ scan_pc = "led_low" /\ slept >= 10)]_vars

\* C9 amended: as stated, except that an Active period is ended either by the loop's
\* transition to Idle after the dwell or by main's cleanup, which releases the pin.
C9_IndicatorMachine ==
    /\ []C9_Inv
    /\ [][C9_Activation]_vars
    /\ [][(led = "Active" /\ led' # "Active") =>
             /\ led' = "Idle"
             /\ \/ scan_pc = "led_low" /\ slept >= 10
                \/ main_pc = "finally" /\ main_pc' = "exiting"]_vars

\* a cycle is about to start after an error backoff; the cycle before had been active
C9_Witness ==
    /\ scan_pc = "led_high" /\ after_error /\ led = "Idle"
    /\ "led_high" \in Range(trace)

-----------------------------------------------------------------------------
(* C10 *)

\* C10: once cleanup has released the GPIO, scan_loop issues no further write to the
\* indicator pin.
C10_NoWriteAfterCleanup == ~late_write

====
